---- MODULE Spec2Model ----
(***************************************************************************)
(* Model of the AI-agent personalization backend (src/app): the           *)
(* record-event handler of main.py, the prompt administration endpoints,  *)
(* the PersonalizationAgent of agent.py and the schema and seed data of   *)
(* models.py.                                                              *)
(*                                                                         *)
(* Texts are TLA+ strings.  The Russian texts of the source are           *)
(* transliterated letter by letter to ASCII (the tools read ASCII only);  *)
(* the transliteration keeps, for every template and canned text of the   *)
(* source, which of the keywords of _mock_response occur in it and what   *)
(* str.format does with it.                                                *)
(*                                                                         *)
(* Spec is the application behind its API: record-event requests, served  *)
(* one after another as one server process serves them, prompt            *)
(* administration and restarts.  SpecAgent calls the operations of the    *)
(* agent directly, on the prompts table the administration leaves.        *)
(* SpecConc is the application served by several processes over the one   *)
(* database file: every request works on its own connection (get_db), and *)
(* the steps of different requests interleave between their commits.      *)
(***************************************************************************)
EXTENDS Integers, Sequences, FiniteSets, TLC

(***************************************************************************)
(* Python values.  None is the Python None (SQL NULL, JSON null).  The    *)
(* fields of every record of this module are written in the order in      *)
(* which TLC keeps them.                                                    *)
(***************************************************************************)
None == [py |-> "None"]

(* An exception leaving a call, and a call that returned value v. *)
Raise(exc) == [raised |-> exc, value |-> None]
Return(v) == [raised |-> "none", value |-> v]

(***************************************************************************)
(* Strings: the operations of Python's str the program uses.              *)
(***************************************************************************)
Ch(t, i) == SubSeq(t, i, i)

UpperToLower ==
    [A |-> "a", B |-> "b", C |-> "c", D |-> "d", E |-> "e", F |-> "f",
     G |-> "g", H |-> "h", I |-> "i", J |-> "j", K |-> "k", L |-> "l",
     M |-> "m", N |-> "n", O |-> "o", P |-> "p", Q |-> "q", R |-> "r",
     S |-> "s", T |-> "t", U |-> "u", V |-> "v", W |-> "w", X |-> "x",
     Y |-> "y", Z |-> "z"]

(* str.lower on one character. *)
LowerCh(c) == IF c \in DOMAIN UpperToLower THEN UpperToLower[c] ELSE c

RECURSIVE Lower(_)
Lower(t) == IF t = "" THEN "" ELSE LowerCh(Ch(t, 1)) \o Lower(SubSeq(t, 2, Len(t)))

(* k in t *)
Contains(t, k) ==
    \E i \in 1..(Len(t) - Len(k) + 1) : SubSeq(t, i, i + Len(k) - 1) = k

(* k in t.lower(), for a lower-case k *)
ContainsLower(t, k) ==
    \E i \in 1..(Len(t) - Len(k) + 1) :
        /\ LowerCh(Ch(t, i)) = Ch(k, 1)
        /\ Lower(SubSeq(t, i, i + Len(k) - 1)) = k

(***************************************************************************)
(* str.format with keyword arguments kw: "{{" and "}}" are literal braces, *)
(* "{field}" is replaced by kw[field]; a field that is no key of kw       *)
(* raises KeyError, an empty field IndexError, a lone "}" or an unclosed  *)
(* "{" ValueError.  The field runs to its matching "}" (braces nest       *)
(* inside a field) and its name ends at the first ":" or "!"; what        *)
(* follows the name (a conversion, a format spec) is not applied, and no  *)
(* template of the program has one.                                        *)
(***************************************************************************)
Braces(t) == {i \in 1..Len(t) : Ch(t, i) \in {"{", "}"}}

Least(S) == CHOOSE i \in S : \A j \in S : i <= j

RECURSIVE FieldEnd(_, _, _, _)
FieldEnd(t, B, i, depth) ==
    LET rest == {j \in B : j >= i} IN
    IF rest = {} THEN 0
    ELSE LET j == Least(rest) IN
         IF Ch(t, j) = "{" THEN FieldEnd(t, B, j + 1, depth + 1)
         ELSE IF depth = 1 THEN j ELSE FieldEnd(t, B, j + 1, depth - 1)

FieldName(f) ==
    LET stops == {i \in 1..Len(f) : Ch(f, i) \in {":", "!"}} IN
    IF stops = {} THEN f ELSE SubSeq(f, 1, Least(stops) - 1)

RECURSIVE FormatFrom(_, _, _, _)
FormatFrom(t, B, i, kw) ==
    LET rest == {j \in B : j >= i} IN
    IF rest = {} THEN Return(SubSeq(t, i, Len(t)))
    ELSE
      LET j == Least(rest)
          lit == SubSeq(t, i, j - 1)
          doubled == j < Len(t) /\ Ch(t, j + 1) = Ch(t, j)
          Then(piece, k) ==
              LET tail == FormatFrom(t, B, k, kw) IN
              IF tail.raised # "none" THEN tail
              ELSE Return(lit \o piece \o tail.value)
      IN
      IF doubled THEN Then(Ch(t, j), j + 2)
      ELSE IF Ch(t, j) = "}" THEN Raise("ValueError")
      ELSE LET e == FieldEnd(t, B, j + 1, 1) IN
           IF e = 0 THEN Raise("ValueError")
           ELSE LET name == FieldName(SubSeq(t, j + 1, e - 1)) IN
                IF name = "" THEN Raise("IndexError")
                ELSE IF name \notin DOMAIN kw THEN Raise("KeyError")
                ELSE Then(kw[name], e + 1)

format(t, kw) == FormatFrom(t, Braces(t), 1, kw)

(***************************************************************************)
(* The prompt templates of the source.                                    *)
(***************************************************************************)
(* agent.py lines 32-48, transliterated *)
DefaultDecisionAgent ==
    "Ty - AI-agent po personalizacii kommunikacij.\n"
    \o "\n"
    \o "Kontekst:\n"
    \o "- Pol'zovatel': {user_profile}\n"
    \o "- Sobytie: {event}\n"
    \o "- Istoriya za 24ch: {recent_activity}\n"
    \o "\n"
    \o "Reshi, nuzhno li otpravit' soobshhenie. Otvet' JSON:\n"
    \o "{\n"
    \o "  \"should_engage\": true/false,\n"
    \o "  \"reasoning\": \"pochemu\",\n"
    \o "  \"action\": {\n"
    \o "    \"type\": \"email\" ili \"push\" ili null,\n"
    \o "    \"subject\": \"tema\",\n"
    \o "    \"body\": \"tekst\"\n"
    \o "  }\n"
    \o "}"

(* agent.py lines 50-56, transliterated *)
DefaultTextGenerator ==
    "Napishi personalizirovannoe soobshhenie dlya {channel}.\n"
    \o "\n"
    \o "Klient: {name}\n"
    \o "Interesy: {interests}\n"
    \o "Segment: {segment}\n"
    \o "\n"
    \o "Email: do 150 slov. Push: do 80 simvolov."

(* models.py lines 110-141, transliterated *)
SeedDecisionAgent ==
    "Ty - AI-agent po personalizacii kommunikacij s klientami internet-magazina.\n"
    \o "\n"
    \o "**Kontekst:**\n"
    \o "- Pol'zovatel': {user_profile}\n"
    \o "- Tol'ko chto proizoshlo sobytie: {event}\n"
    \o "- Istoriya vzaimodejstvij za poslednie 24 chasa: {recent_activity}\n"
    \o "\n"
    \o "**Tvoya zadacha:**\n"
    \o "Proanaliziruj situaciyu i reshi, nuzhno li otpravit' klientu personalizirovannoe soobshhenie. Esli da - vyberi tip soobshheniya, kanal i sgeneriruj tekst.\n"
    \o "\n"
    \o "**Instrumenty, kotorye u tebya est':**\n"
    \o "1. send_email(recipient, subject, body) - otpravit' email\n"
    \o "2. send_push(user_id, title, body) - otpravit' push-uvedomlenie\n"
    \o "3. get_recommendations(user_id, category) - poluchit' rekomendacii tovarov\n"
    \o "4. get_user_profile(user_id) - poluchit' polnyj profil'\n"
    \o "\n"
    \o "**Pravila:**\n"
    \o "- Ne otpravlyaj bol'she 1 soobshheniya v chas odnomu pol'zovatelyu\n"
    \o "- Dlya VIP-klientov (pokupki > 10000 rub) mozhno delat' isklyuchenie\n"
    \o "- Izbegaj navyazchivosti: esli pol'zovatel' tol'ko chto zashyol, ne pishi srazu\n"
    \o "\n"
    \o "**Format otveta (strogo JSON):**\n"
    \o "{{\n"
    \o "  \"should_engage\": true/false,\n"
    \o "  \"reasoning\": \"kratkoe obyasnenie pochemu\",\n"
    \o "  \"action\": {{\n"
    \o "    \"type\": \"email\" ili \"push\" ili null,\n"
    \o "    \"subject\": \"tema esli email\",\n"
    \o "    \"body\": \"tekst soobshheniya\",\n"
    \o "    \"recommendations\": [\"product1\", \"product2\"]\n"
    \o "  }}\n"
    \o "}}"

(* models.py lines 143-167, transliterated *)
SeedTextGenerator ==
    "Ty - professional'nyj kopirajter, specializiruyushhijsya na personalizirovannyh email-rassylkah i push-uvedomleniyah.\n"
    \o "\n"
    \o "**Dannye o kliente:**\n"
    \o "- Imya: {name}\n"
    \o "- Interesy: {interests}\n"
    \o "- Poslednie prosmotry: {recent_views}\n"
    \o "- Istoriya pokupok: {purchase_history}\n"
    \o "- Segment: {segment}\n"
    \o "\n"
    \o "**Zadacha:**\n"
    \o "Napishi korotkoe personalizirovannoe soobshhenie dlya {channel} (email/push) na russkom yazyke.\n"
    \o "\n"
    \o "**Usloviya:**\n"
    \o "- Email: do 150 slov, druzhelyubnyj ton\n"
    \o "- Push: do 80 simvolov, yomko\n"
    \o "- Upomyani konkretnye tovary\n"
    \o "- Dobav' prizyv k dejstviyu\n"
    \o "\n"
    \o "**Ton kommunikacii:**\n"
    \o "- Dlya novyh klientov: privetstvennyj, obuchayushhij\n"
    \o "- Dlya postoyannyh: blagodarstvennyj, eksklyuzivnyj\n"
    \o "- Dlya VIP: personal'nyj\n"
    \o "- Dlya spyashhih: vozvrashhayushhij, s vygodnym predlozheniem\n"
    \o "\n"
    \o "**Tvoj otvet (tol'ko tekst soobshheniya):**"

(* models.py lines 169-199, transliterated *)
SeedQualityChecker ==
    "Ty - strogij redaktor, proveryayushhij soobshheniya pered otpravkoj klientam.\n"
    \o "\n"
    \o "**Ishodnoe soobshhenie:**\n"
    \o "{message}\n"
    \o "\n"
    \o "**Kontekst klienta:**\n"
    \o "{user_context}\n"
    \o "\n"
    \o "**Prover' po kriteriyam (ocenka ot 0 do 1):**\n"
    \o "1. Grammatika i orfografiya\n"
    \o "2. Ton - sootvetstvuet li brendu\n"
    \o "3. Personalizaciya\n"
    \o "4. Relevantnost'\n"
    \o "5. Navyazchivost'\n"
    \o "6. Etichnost'\n"
    \o "\n"
    \o "**Format otveta JSON:**\n"
    \o "{{\n"
    \o "  \"overall_score\": 0.85,\n"
    \o "  \"criteria_scores\": {{\n"
    \o "    \"grammar\": 0.9,\n"
    \o "    \"tone\": 0.8,\n"
    \o "    \"personalization\": 0.7,\n"
    \o "    \"relevance\": 0.9,\n"
    \o "    \"spam_score\": 0.2,\n"
    \o "    \"ethics\": 1.0\n"
    \o "  }},\n"
    \o "  \"approved\": true/false,\n"
    \o "  \"comments\": \"zamechaniya\",\n"
    \o "  \"suggested_improvement\": \"uluchshennaya versiya\"\n"
    \o "}}"

(***************************************************************************)
(* Python values other than None: tagged records.  A dict keeps its keys  *)
(* in insertion order (keys) and its values in items.                      *)
(***************************************************************************)
Str(s) == [py |-> "str", s |-> s]
Bool(b) == [py |-> "bool", b |-> b]
Num(r) == [py |-> "number", repr |-> r]
List(es) == [py |-> "list", elems |-> es]
Dict(ks, f) == [py |-> "dict", keys |-> ks, items |-> f]
Datetime(iso) == [py |-> "datetime", iso |-> iso]

IsDict(v) == v.py = "dict"

(* bool(v) *)
Truthy(v) ==
    CASE v.py = "None" -> FALSE
      [] v.py = "bool" -> v.b
      [] v.py = "str" -> v.s # ""
      [] v.py = "number" -> v.repr \notin {"0", "0.0"}
      [] v.py = "list" -> Len(v.elems) > 0
      [] v.py = "dict" -> Len(v.keys) > 0
      [] OTHER -> TRUE

(* d.get(k, default) of a dict d *)
Get(d, k, default) == IF k \in DOMAIN d.items THEN d.items[k] ELSE default

(***************************************************************************)
(* json.dumps(v, ensure_ascii=False): the JSON text of v, TypeError for a *)
(* value the encoder does not know (a datetime).                           *)
(***************************************************************************)
RECURSIVE json_dumps(_)
RECURSIVE DumpsElems(_, _)
RECURSIVE DumpsItems(_, _)

DumpsElems(es, i) ==
    IF i > Len(es) THEN Return("")
    ELSE LET h == json_dumps(es[i])
             t == DumpsElems(es, i + 1) IN
         IF h.raised # "none" THEN h
         ELSE IF t.raised # "none" THEN t
         ELSE Return((IF i > 1 THEN ", " ELSE "") \o h.value \o t.value)

DumpsItems(d, i) ==
    IF i > Len(d.keys) THEN Return("")
    ELSE LET h == json_dumps(d.items[d.keys[i]])
             t == DumpsItems(d, i + 1) IN
         IF h.raised # "none" THEN h
         ELSE IF t.raised # "none" THEN t
         ELSE Return((IF i > 1 THEN ", " ELSE "") \o "\"" \o d.keys[i] \o "\": "
                     \o h.value \o t.value)

json_dumps(v) ==
    CASE v.py = "None" -> Return("null")
      [] v.py = "bool" -> Return(IF v.b THEN "true" ELSE "false")
      [] v.py = "number" -> Return(v.repr)
      [] v.py = "str" -> Return("\"" \o v.s \o "\"")
      [] v.py = "list" ->
            LET r == DumpsElems(v.elems, 1) IN
            IF r.raised # "none" THEN r ELSE Return("[" \o r.value \o "]")
      [] v.py = "dict" ->
            LET r == DumpsItems(v, 1) IN
            IF r.raised # "none" THEN r ELSE Return("{" \o r.value \o "}")
      [] OTHER -> Raise("TypeError")

(***************************************************************************)
(* PersonalizationAgent._mock_response: the canned responses, chosen by   *)
(* the keywords in the prompt.  The branches are tried in the order of    *)
(* the if/elif chain.                                                      *)
(***************************************************************************)
MockDecision ==
    Dict(<<"should_engage", "reasoning", "action">>,
         [should_engage |-> Bool(TRUE),
          reasoning |-> Str("Pol'zovatel' dobavil tovar v korzinu, no ne zavershil pokupku. "
                            \o "Eto horoshij moment dlya napominaniya."),
          action |-> Dict(<<"type", "subject", "body", "recommendations">>,
                          [type |-> Str("email"),
                           subject |-> Str("Zabyli chto-to v korzine?"),
                           body |-> Str("Zdravstvujte! My zametili, chto vy dobavili tovary v "
                                        \o "korzinu, no ne zavershili pokupku. Gotovy oformit' zakaz?"),
                           recommendations |-> List(<<>>)])])

MockText ==
    Dict(<<"text">>,
         [text |-> Str("Zdravstvujte! U nas est' special'noe predlozhenie dlya vas. "
                       \o "Prover'te svoyu korzinu!")])

MockQuality ==
    Dict(<<"overall_score", "criteria_scores", "approved", "comments", "suggested_improvement">>,
         [overall_score |-> Num("0.85"),
          criteria_scores |->
              Dict(<<"grammar", "tone", "personalization", "relevance", "spam_score", "ethics">>,
                   [grammar |-> Num("0.9"), tone |-> Num("0.8"), personalization |-> Num("0.7"),
                    relevance |-> Num("0.9"), spam_score |-> Num("0.2"), ethics |-> Num("1.0")]),
          approved |-> Bool(TRUE),
          comments |-> Str(""),
          suggested_improvement |-> Str("")])

(* prompt[:100] *)
RawLen == 100
Prefix(t, n) == SubSeq(t, 1, IF Len(t) < n THEN Len(t) ELSE n)

MockGeneric(prompt) ==
    Dict(<<"text", "raw">>, [text |-> Str("Mok-otvet"), raw |-> Str(Prefix(prompt, RawLen))])

_mock_response(prompt) ==
    IF ContainsLower(prompt, "reshenie") \/ Contains(prompt, "should_engage")
    THEN MockDecision
    ELSE IF ContainsLower(prompt, "tekst") \/ ContainsLower(prompt, "napishi")
    THEN MockText
    ELSE IF ContainsLower(prompt, "prover'") \/ ContainsLower(prompt, "quality")
    THEN MockQuality
    ELSE MockGeneric(prompt)

(***************************************************************************)
(* The chat-completion endpoint, as the client sees it.  One exchange is  *)
(* either a transport failure (httpx.post raises) or a response with a    *)
(* status code and a body; a body is not JSON, JSON without               *)
(* choices[0].message.content, or JSON with that content (a string, or    *)
(* null).                                                                   *)
(***************************************************************************)
TransportError == [kind |-> "transport_error"]
Response(code, body) == [body |-> body, kind |-> "response", status |-> code]
BodyNotJson == [shape |-> "not_json", content |-> None]
BodyNoChoices == [shape |-> "no_choices", content |-> None]
BodyContent(c) == [shape |-> "completion", content |-> c]

(* json.loads on the message contents the model lets the endpoint return. *)
DecisionNo ==
    Dict(<<"should_engage", "reasoning", "action">>,
         [should_engage |-> Bool(FALSE), reasoning |-> Str("too soon"), action |-> None])
DecisionPush ==
    Dict(<<"should_engage", "action">>,
         [should_engage |-> Bool(TRUE),
          action |-> Dict(<<"type", "body">>, [type |-> Str("push"), body |-> Str("sale")])])
DecisionSmsNulls ==
    Dict(<<"should_engage", "action">>,
         [should_engage |-> Bool(TRUE),
          action |-> Dict(<<"type", "subject", "body">>,
                          [type |-> Str("sms"), subject |-> None, body |-> None])])
DecisionNullAction ==
    Dict(<<"should_engage", "action">>, [should_engage |-> Bool(TRUE), action |-> None])
DecisionNoAction == Dict(<<"should_engage">>, [should_engage |-> Bool(TRUE)])
QualityReject ==
    Dict(<<"overall_score", "approved">>, [overall_score |-> Num("0.4"), approved |-> Bool(FALSE)])
TextAnswer == Dict(<<"content">>, [content |-> Str("Hello")])
JsonList == List(<<Num("1")>>)

JsonTable ==
    { [value |-> DecisionNo,
       text |-> "{\"should_engage\": false, \"reasoning\": \"too soon\", \"action\": null}"],
      [value |-> DecisionPush,
       text |-> "{\"should_engage\": true, \"action\": {\"type\": \"push\", \"body\": \"sale\"}}"],
      [value |-> DecisionSmsNulls,
       text |-> "{\"should_engage\": true, \"action\": {\"type\": \"sms\", \"subject\": null, \"body\": null}}"],
      [value |-> DecisionNullAction, text |-> "{\"should_engage\": true, \"action\": null}"],
      [value |-> DecisionNoAction, text |-> "{\"should_engage\": true}"],
      [value |-> QualityReject, text |-> "{\"overall_score\": 0.4, \"approved\": false}"],
      [value |-> TextAnswer, text |-> "{\"content\": \"Hello\"}"],
      [value |-> JsonList, text |-> "[1]"] }

(* A content that is no JSON text. *)
PlainContent == "Sure! Here is the message: Hello"

Contents == {e.text : e \in JsonTable} \cup {PlainContent}

json_loads(c) ==
    IF c.py # "str" THEN Raise("TypeError")
    ELSE IF \E e \in JsonTable : e.text = c.s
    THEN Return((CHOOSE e \in JsonTable : e.text = c.s).value)
    ELSE Raise("JSONDecodeError")

StatusOk == 200

(***************************************************************************)
(* PersonalizationAgent._call_llm.  http counts the requests handed to    *)
(* httpx.post; mock tells whether the result came from _mock_response.    *)
(***************************************************************************)
LlmResult(exc, v, n, m) == [raised |-> exc, value |-> v, http |-> n, mock |-> m]

(* A faulty _call_llm for C4: the outer "except Exception" is missing, so   *)
(* a transport failure leaves the call as an exception.                    *)
_call_llm_unguarded(api_key, prompt, net) ==
    IF api_key = "" THEN LlmResult("none", _mock_response(prompt), 0, TRUE)
    ELSE IF net.kind = "transport_error"
    THEN LlmResult("ConnectError", None, 1, FALSE)
    ELSE IF net.status = StatusOk
    THEN IF net.body.shape # "completion"
         THEN LlmResult("none", _mock_response(prompt), 1, TRUE)
         ELSE LET parsed == json_loads(net.body.content) IN
              IF parsed.raised = "none" THEN LlmResult("none", parsed.value, 1, FALSE)
              ELSE IF parsed.raised = "JSONDecodeError"
              THEN LlmResult("none",
                             Dict(<<"text", "raw">>,
                                  [text |-> net.body.content, raw |-> net.body.content]),
                             1, FALSE)
              ELSE LlmResult("none", _mock_response(prompt), 1, TRUE)
    ELSE LlmResult("none", _mock_response(prompt), 1, TRUE)

_call_llm(api_key, prompt, net) ==
    IF api_key = "" THEN LlmResult("none", _mock_response(prompt), 0, TRUE)
    ELSE IF net.kind = "transport_error"
    THEN LlmResult("none", _mock_response(prompt), 1, TRUE)
    ELSE IF net.status = StatusOk
    THEN IF net.body.shape # "completion"
         THEN LlmResult("none", _mock_response(prompt), 1, TRUE)
         ELSE LET parsed == json_loads(net.body.content) IN
              IF parsed.raised = "none" THEN LlmResult("none", parsed.value, 1, FALSE)
              ELSE IF parsed.raised = "JSONDecodeError"
              THEN LlmResult("none",
                             Dict(<<"text", "raw">>,
                                  [text |-> net.body.content, raw |-> net.body.content]),
                             1, FALSE)
              ELSE LlmResult("none", _mock_response(prompt), 1, TRUE)
    ELSE LlmResult("none", _mock_response(prompt), 1, TRUE)

(***************************************************************************)
(* The prompts table and the template lookup of the agent.  A row of      *)
(* prompts is [id, name, template, is_active]; name is UNIQUE.             *)
(***************************************************************************)
PromptRow(id, name, template) ==
    [name |-> name, id |-> id, template |-> template, is_active |-> TRUE]

_get_default_prompt(name) ==
    CASE name = "decision_agent" -> DefaultDecisionAgent
      [] name = "text_generator" -> DefaultTextGenerator
      [] OTHER -> ""

(* SELECT template FROM prompts WHERE name = ? AND is_active = 1 *)
ActivePrompts(rows, name) == SelectSeq(rows, LAMBDA r : r.name = name /\ r.is_active)

(* A faulty lookup for C5: the prompts table is not consulted. *)
get_prompt_template_builtin_only(rows, name) == _get_default_prompt(name)

get_prompt_template(rows, name) ==
    LET found == ActivePrompts(rows, name) IN
    IF found # <<>> THEN found[1].template ELSE _get_default_prompt(name)

(***************************************************************************)
(* The operations of the agent.  Each returns what the call did: the      *)
(* exception that left it (or "none"), the value returned, the template   *)
(* looked up, the prompt built, the calls made to _call_llm, the requests *)
(* sent to the endpoint and whether the value is a mock response.         *)
(***************************************************************************)
Outcome(exc, v, tmpl, prompt, calls, n, m) ==
    [raised |-> exc, value |-> v, prompt |-> prompt, http |-> n,
     mock |-> m, template |-> tmpl, llm_calls |-> calls]

Failed(exc, tmpl) == Outcome(exc, None, tmpl, "", 0, 0, FALSE)

Asked(tmpl, prompt, llm) ==
    Outcome(llm.raised, llm.value, tmpl, prompt, 1, llm.http, llm.mock)

make_decision(rows, api_key, user_profile, event, recent_activity, net) ==
    LET tmpl == get_prompt_template(rows, "decision_agent")
        p == json_dumps(user_profile)
        e == json_dumps(event)
        r == json_dumps(recent_activity)
    IN
    IF p.raised # "none" THEN Failed(p.raised, tmpl)
    ELSE IF e.raised # "none" THEN Failed(e.raised, tmpl)
    ELSE IF r.raised # "none" THEN Failed(r.raised, tmpl)
    ELSE LET f == format(tmpl, [user_profile |-> p.value, event |-> e.value,
                                recent_activity |-> r.value]) IN
         IF f.raised # "none" THEN Failed(f.raised, tmpl)
         ELSE Asked(tmpl, f.value, _call_llm(api_key, f.value, net))

(* str(v) of a value put into a template by format *)
Text(v) == IF v.py = "str" THEN v.s ELSE IF v.py = "None" THEN "None" ELSE json_dumps(v).value

generate_text(rows, api_key, user_profile, channel, context, net) ==
    LET tmpl == get_prompt_template(rows, "text_generator")
        i == json_dumps(Get(user_profile, "interests", List(<<>>)))
        v == json_dumps(Get(context, "recent_views", List(<<>>)))
        h == json_dumps(Get(context, "purchase_history", List(<<>>)))
    IN
    IF i.raised # "none" THEN Failed(i.raised, tmpl)
    ELSE IF v.raised # "none" THEN Failed(v.raised, tmpl)
    ELSE IF h.raised # "none" THEN Failed(h.raised, tmpl)
    ELSE LET f == format(tmpl, [name |-> Text(Get(user_profile, "name", Str("Klient"))),
                                channel |-> channel,
                                interests |-> i.value,
                                segment |-> Text(Get(user_profile, "segment", Str("new"))),
                                recent_views |-> v.value,
                                purchase_history |-> h.value]) IN
         IF f.raised # "none" THEN Failed(f.raised, tmpl)
         ELSE LET llm == _call_llm(api_key, f.value, net)
                  asked == Asked(tmpl, f.value, llm) IN
              IF ~IsDict(llm.value)
              THEN [asked EXCEPT !.raised = "AttributeError", !.value = None]
              ELSE [asked EXCEPT !.value = Get(llm.value, "text",
                                               Get(llm.value, "content", Str("")))]

QualityDefault ==
    Dict(<<"overall_score", "criteria_scores", "approved", "comments", "suggested_improvement">>,
         [overall_score |-> Num("0.9"),
          criteria_scores |->
              Dict(<<"grammar", "tone", "personalization", "relevance", "spam_score", "ethics">>,
                   [grammar |-> Num("1.0"), tone |-> Num("0.9"), personalization |-> Num("0.8"),
                    relevance |-> Num("0.9"), spam_score |-> Num("0.1"), ethics |-> Num("1.0")]),
          approved |-> Bool(TRUE),
          comments |-> Str(""),
          suggested_improvement |-> Str("")])

(* A faulty check_quality for C8: the test "if not template" is missing,   *)
(* so the empty template goes to the LLM client like any other.            *)
check_quality_unconditional(rows, api_key, message, user_context, net) ==
    LET tmpl == get_prompt_template(rows, "quality_checker")
        f == format(tmpl, [message |-> message,
                           user_context |-> json_dumps(user_context).value]) IN
    IF f.raised # "none" THEN Failed(f.raised, tmpl)
    ELSE Asked(tmpl, f.value, _call_llm(api_key, f.value, net))

check_quality(rows, api_key, message, user_context, net) ==
    LET tmpl == get_prompt_template(rows, "quality_checker") IN
    IF tmpl = "" THEN Outcome("none", QualityDefault, tmpl, "", 0, 0, FALSE)
    ELSE LET c == json_dumps(user_context) IN
         IF c.raised # "none" THEN Failed(c.raised, tmpl)
         ELSE LET f == format(tmpl, [message |-> message, user_context |-> c.value]) IN
              IF f.raised # "none" THEN Failed(f.raised, tmpl)
              ELSE Asked(tmpl, f.value, _call_llm(api_key, f.value, net))

(***************************************************************************)
(* The database after init_db: users, events, messages and prompts, each  *)
(* a sequence of rows in rowid order (no row is ever deleted, so a row's  *)
(* id is its position).                                                     *)
(***************************************************************************)
SeedPrompts ==
    << [name |-> "decision_agent", template |-> SeedDecisionAgent],
       [name |-> "text_generator", template |-> SeedTextGenerator],
       [name |-> "quality_checker", template |-> SeedQualityChecker] >>

(* INSERT INTO prompts: IntegrityError when the name is taken *)
NameTaken(rows, name) == \E i \in 1..Len(rows) : rows[i].name = name

InsertPrompt(rows, name, template) ==
    IF NameTaken(rows, name) THEN Raise("IntegrityError")
    ELSE Return(Append(rows, PromptRow(Len(rows) + 1, name, template)))

(* init_db: the loop over default_prompts; an IntegrityError is passed over *)
RECURSIVE SeedFrom(_, _)
SeedFrom(rows, i) ==
    IF i > Len(SeedPrompts) THEN rows
    ELSE LET ins == InsertPrompt(rows, SeedPrompts[i].name, SeedPrompts[i].template) IN
         SeedFrom(IF ins.raised = "none" THEN ins.value ELSE rows, i + 1)

init_db(rows) == SeedFrom(rows, 1)

(* INSERT INTO users (user_id, name, segment, total_spent, created_at) *)
Now == "2024-01-01 12:00:00"

NewUserRow(id, user_id) ==
    [name |-> "User_" \o user_id, id |-> id, segment |-> "new",
     user_id |-> user_id, total_spent |-> "0.0", created_at |-> Now]

(* A faulty SELECT for C3: the WHERE clause is missing. *)
UserRowsOfAnyUser(rows, user_id) == rows

(* SELECT * FROM users WHERE user_id = ? *)
UserRows(rows, user_id) == SelectSeq(rows, LAMBDA r : r.user_id = user_id)

(* A faulty INSERT for C15: the row is not committed and is lost. *)
InsertUserUncommitted(rows, user_id) ==
    IF UserRows(rows, user_id) # <<>> THEN Raise("IntegrityError")
    ELSE Return(rows)

InsertUser(rows, user_id) ==
    IF UserRows(rows, user_id) # <<>> THEN Raise("IntegrityError")
    ELSE Return(Append(rows, NewUserRow(Len(rows) + 1, user_id)))

(* dict(user_row): every column of users, in the order of the schema *)
UserRowDict(r) ==
    Dict(<<"id", "user_id", "name", "email", "phone", "segment", "total_spent",
           "interests", "created_at", "updated_at">>,
         [name |-> Str(r.name), id |-> Num(ToString(r.id)), interests |-> None,
          segment |-> Str(r.segment), user_id |-> Str(r.user_id), total_spent |-> Num(r.total_spent),
          created_at |-> Str(r.created_at), email |-> None,
          phone |-> None, updated_at |-> Str(r.created_at)])

(* the profile the handler builds for a user it has just created *)
NewUserProfile(user_id) ==
    Dict(<<"user_id", "name", "segment", "total_spent">>,
         [name |-> Str("User_" \o user_id), segment |-> Str("new"),
          user_id |-> Str(user_id), total_spent |-> Num("0")])

(* The Event model of a request: timestamp is a datetime *)
EventModel(user_id, event) ==
    [event |-> event, user_id |-> user_id, product_id |-> None,
     timestamp |-> Datetime("2024-01-01T12:00:00"), properties |-> Dict(<<>>, <<>>)]

(* event.dict(): the fields as they are, the timestamp still a datetime *)
EventDict(ev) ==
    Dict(<<"user_id", "event", "product_id", "timestamp", "properties">>,
         [event |-> Str(ev.event), user_id |-> Str(ev.user_id), product_id |-> ev.product_id,
          timestamp |-> ev.timestamp, properties |-> ev.properties])

(* INSERT INTO events; the datetime is stored as text *)
EventRow(id, ev) ==
    [id |-> id, user_id |-> ev.user_id, timestamp |-> Now, event_type |-> ev.event]

EventRowDict(r) ==
    Dict(<<"id", "user_id", "event_type", "product_id", "timestamp", "properties">>,
         [id |-> Num(ToString(r.id)), user_id |-> Str(r.user_id),
          product_id |-> None, timestamp |-> Str(r.timestamp),
          properties |-> Str("{}"), event_type |-> Str(r.event_type)])

(* SELECT * FROM events WHERE user_id = ? AND timestamp > now - 24 hours
   ORDER BY timestamp DESC LIMIT 10, as a list of dicts.  Every event of the
   model is of the last 24 hours, a later row the more recent one. *)
RecentLimit == 10

RECURSIVE Reverse(_)
Reverse(q) == IF q = <<>> THEN <<>> ELSE Append(Reverse(Tail(q)), Head(q))

RecentActivity(rows, user_id) ==
    LET mine == Reverse(SelectSeq(rows, LAMBDA r : r.user_id = user_id))
        n == IF Len(mine) < RecentLimit THEN Len(mine) ELSE RecentLimit IN
    List([i \in 1..n |-> EventRowDict(mine[i])])

(* INSERT INTO messages: content is NOT NULL *)
MessageRow(id, user_id, type, subject, content) ==
    [subject |-> subject, status |-> "pending", content |-> content, id |-> id,
     user_id |-> user_id, message_type |-> type]

InsertMessage(rows, user_id, type, subject, content) ==
    IF type.py = "None" \/ content.py = "None" THEN Raise("IntegrityError")
    ELSE Return(Append(rows, MessageRow(Len(rows) + 1, user_id, type, subject, content)))

(***************************************************************************)
(* handle_event, after the agent has returned result: the test of the     *)
(* decision, the INSERT INTO messages and its commit, the response.       *)
(* result.get and action.get raise AttributeError on a value that is no   *)
(* dict.                                                                    *)
(***************************************************************************)
Processed(result) == [status |-> "processed", agent_decision |-> result, error |-> "none"]
ServerError(exc) == [status |-> "error", agent_decision |-> None, error |-> exc]
NoResponse == [status |-> "none", agent_decision |-> None, error |-> "none"]

Handled(msgs, resp) == [messages |-> msgs, response |-> resp]

HandleDecision(msgs, user_id, result) ==
    IF ~IsDict(result) THEN Handled(msgs, ServerError("AttributeError"))
    ELSE IF ~Truthy(Get(result, "should_engage", None)) THEN Handled(msgs, Processed(result))
    ELSE LET action == Get(result, "action", Dict(<<>>, <<>>)) IN
         IF ~IsDict(action) THEN Handled(msgs, ServerError("AttributeError"))
         ELSE IF ~Truthy(Get(action, "type", None)) THEN Handled(msgs, Processed(result))
         ELSE LET ins == InsertMessage(msgs, user_id, action.items["type"],
                                       Get(action, "subject", Str("")),
                                       Get(action, "body", Str(""))) IN
              IF ins.raised # "none" THEN Handled(msgs, ServerError(ins.raised))
              ELSE Handled(ins.value, Processed(result))

(***************************************************************************)
(* Bounds of the model and the inputs the environment draws from.         *)
(***************************************************************************)
MaxEvents == 3
MaxAdminOps == 1
MaxPrompts == 4
NWorkers == 2

Workers == 1..NWorkers
UserIds == {"u1", "u2"}
EventTypes == {"cart_abandon"}
Keys == {"", "sk-test"}

Exchanges ==
    {TransportError, Response(500, BodyNotJson), Response(StatusOk, BodyNotJson),
     Response(StatusOk, BodyNoChoices), Response(StatusOk, BodyContent(None))}
    \cup {Response(StatusOk, BodyContent(Str(c))) : c \in Contents}

(* No exchange is drawn for an agent without a key: it sends no request. *)
ExchangesFor(key) == IF key = "" THEN {TransportError} ELSE Exchanges

(* What an administrator may store as a prompt. *)
CustomTemplate == "Ocenite soobshhenie {message} dlya {user_context}"
PromptNames == {"decision_agent", "text_generator", "quality_checker", "archived"}
PromptTemplates == {CustomTemplate}

(***************************************************************************)
(* State.                                                                  *)
(***************************************************************************)
VARIABLES
    users,          \* the users table
    events,         \* the events table
    messages,       \* the messages table
    prompts,        \* the prompts table
    api_key,        \* PersonalizationAgent.api_key
    multiprocess,   \* whether requests are served by several processes at once
    h,              \* the record-event requests being served, one per worker
    a,              \* the direct call of an agent operation that is returning
    admin_ops       \* the prompt administration requests served so far

vars == <<users, events, messages, prompts, api_key, multiprocess, h, a, admin_ops>>

NoEvent == EventModel("", "")
Idle ==
    [net |-> TransportError, user_profile |-> None, event |-> NoEvent, response |-> NoResponse,
     pc |-> "idle", decision |-> Failed("none", ""),
     users0 |-> <<>>, events0 |-> <<>>, messages0 |-> <<>>]

NoCall == [name |-> "", net |-> TransportError, op |-> "none", input |-> "",
           out |-> Failed("none", "")]

InitCommon ==
    /\ users = <<>>
    /\ events = <<>>
    /\ messages = <<>>
    /\ prompts = init_db(<<>>)
    /\ api_key \in Keys
    /\ h = [w \in Workers |-> Idle]
    /\ a = NoCall
    /\ admin_ops = 0

Init == InitCommon /\ multiprocess = FALSE

(***************************************************************************)
(* POST /api/event, handle_event, in the steps between its commits.       *)
(***************************************************************************)
(* lines 90-97: the request arrives, its event row is inserted and committed *)
ReceiveEvent(w, ev) ==
    /\ h[w].pc = "idle"
    /\ a.op = "none"
    /\ multiprocess \/ w = 1
    /\ Len(events) < MaxEvents
    /\ events' = Append(events, EventRow(Len(events) + 1, ev))
    /\ h' = [h EXCEPT ![w] = [Idle EXCEPT !.pc = "get_user", !.event = ev,
                                           !.users0 = users, !.events0 = events,
                                           !.messages0 = messages]]
    /\ UNCHANGED <<users, messages, prompts, api_key, multiprocess, a, admin_ops>>

(* lines 100-103, 111-112: SELECT * FROM users WHERE user_id = ? *)
GetUser(w) ==
    /\ h[w].pc = "get_user"
    /\ LET found == UserRows(users, h[w].event.user_id) IN
       h' = [h EXCEPT ![w] =
                IF found = <<>> THEN [@ EXCEPT !.pc = "create_user"]
                ELSE [@ EXCEPT !.pc = "decide", !.user_profile = UserRowDict(found[1])]]
    /\ UNCHANGED <<users, events, messages, prompts, api_key, multiprocess, a, admin_ops>>

(* lines 104-110: INSERT INTO users and its commit *)
CreateUser(w) ==
    /\ h[w].pc = "create_user"
    /\ LET ins == InsertUser(users, h[w].event.user_id) IN
       IF ins.raised # "none"
       THEN /\ users' = users
            /\ h' = [h EXCEPT ![w].pc = "done", ![w].response = ServerError(ins.raised)]
       ELSE /\ users' = ins.value
            /\ h' = [h EXCEPT ![w].pc = "decide",
                              ![w].user_profile = NewUserProfile(h[w].event.user_id)]
    /\ UNCHANGED <<events, messages, prompts, api_key, multiprocess, a, admin_ops>>

(* lines 114-145: the recent activity, the agent's decision, the message *)
Decide(w, net) ==
    /\ h[w].pc = "decide"
    /\ LET ev == h[w].event
           d == make_decision(prompts, api_key, h[w].user_profile, EventDict(ev),
                              RecentActivity(events, ev.user_id), net)
       IN
       IF d.raised # "none"
       THEN /\ messages' = messages
            /\ h' = [h EXCEPT ![w].pc = "done", ![w].net = net, ![w].decision = d,
                              ![w].response = ServerError(d.raised)]
       ELSE LET t == HandleDecision(messages, ev.user_id, d.value) IN
            /\ messages' = t.messages
            /\ h' = [h EXCEPT ![w].pc = "done", ![w].net = net, ![w].decision = d,
                              ![w].response = t.response]
    /\ UNCHANGED <<users, events, prompts, api_key, multiprocess, a, admin_ops>>

(* the response has been sent; the worker takes the next request *)
Respond(w) ==
    /\ h[w].pc = "done"
    /\ h' = [h EXCEPT ![w] = Idle]
    /\ UNCHANGED <<users, events, messages, prompts, api_key, multiprocess, a, admin_ops>>

(***************************************************************************)
(* Prompt administration and the startup hook.                            *)
(***************************************************************************)
(* POST /api/admin/prompts: an IntegrityError leaves the table as it was *)
create_prompt(name, template) ==
    /\ admin_ops < MaxAdminOps
    /\ a.op = "none"
    /\ Len(prompts) < MaxPrompts
    /\ LET ins == InsertPrompt(prompts, name, template) IN
       prompts' = IF ins.raised = "none" THEN ins.value ELSE prompts
    /\ admin_ops' = admin_ops + 1
    /\ UNCHANGED <<users, events, messages, api_key, multiprocess, h, a>>

(* PUT /api/admin/prompts/{id}: UPDATE prompts SET name, template WHERE id *)
UpdatePrompt(rows, id, name, template) ==
    IF id \notin 1..Len(rows) THEN Return(rows)
    ELSE IF \E i \in 1..Len(rows) : i # id /\ rows[i].name = name THEN Raise("IntegrityError")
    ELSE Return([rows EXCEPT ![id].name = name, ![id].template = template])

update_prompt(id, name, template) ==
    /\ admin_ops < MaxAdminOps
    /\ a.op = "none"
    /\ LET upd == UpdatePrompt(prompts, id, name, template) IN
       prompts' = IF upd.raised = "none" THEN upd.value ELSE prompts
    /\ admin_ops' = admin_ops + 1
    /\ UNCHANGED <<users, events, messages, api_key, multiprocess, h, a>>

(* startup_event: the application starts again and init_db runs *)
startup_event ==
    /\ \A w \in Workers : h[w].pc = "idle"
    /\ a.op = "none"
    /\ Len(init_db(prompts)) <= MaxPrompts
    /\ prompts' = init_db(prompts)
    /\ UNCHANGED <<users, events, messages, api_key, multiprocess, h, a, admin_ops>>

Admin ==
    \/ \E name \in PromptNames, template \in PromptTemplates : create_prompt(name, template)
    \/ \E id \in 1..MaxPrompts, name \in PromptNames :
          \E template \in PromptTemplates
                           \cup {prompts[i].template : i \in {id} \cap 1..Len(prompts)} :
             update_prompt(id, name, template)
    \/ startup_event

(***************************************************************************)
(* The operations of the agent, called directly.                          *)
(***************************************************************************)
VipProfile ==
    Dict(<<"user_id", "name", "segment", "total_spent", "interests">>,
         [name |-> Str("Anna"), interests |-> List(<<Str("shoes")>>), segment |-> Str("VIP"),
          user_id |-> Str("u9"), total_spent |-> Num("20000")])
Profiles == {NewUserProfile("u1"), VipProfile}

(* an event whose timestamp the caller has already written as text *)
PlainEvent ==
    Dict(<<"user_id", "event", "timestamp">>,
         [event |-> Str("cart_abandon"), user_id |-> Str("u1"),
          timestamp |-> Str("2024-01-01T12:00:00")])
AgentEvents == {PlainEvent, EventDict(EventModel("u1", "cart_abandon"))}

QualityMessages == {"Privet! U nas skidki.", "Vash zakaz gotov"}
QualityContext == Dict(<<"segment">>, [segment |-> Str("new")])
TextContext == Dict(<<"recent_views">>, [recent_views |-> List(<<Str("p1")>>)])

Called(op, name, input, net, out) ==
    [name |-> name, net |-> net, op |-> op, input |-> input, out |-> out]

AgentFrame == <<users, events, messages, prompts, api_key, multiprocess, h, admin_ops>>

CallGetPromptTemplate(name) ==
    /\ a.op = "none"
    /\ LET t == get_prompt_template(prompts, name) IN
       a' = Called("get_prompt_template", name, "", TransportError,
                   Outcome("none", Str(t), t, "", 0, 0, FALSE))
    /\ UNCHANGED AgentFrame

CallMakeDecision(profile, event, net) ==
    /\ a.op = "none"
    /\ a' = Called("make_decision", "decision_agent", event.items.timestamp.py, net,
                   make_decision(prompts, api_key, profile, event, List(<<>>), net))
    /\ UNCHANGED AgentFrame

CallGenerateText(profile, channel, net) ==
    /\ a.op = "none"
    /\ a' = Called("generate_text", "text_generator", channel, net,
                   generate_text(prompts, api_key, profile, channel, TextContext, net))
    /\ UNCHANGED AgentFrame

CallCheckQuality(message, net) ==
    /\ a.op = "none"
    /\ a' = Called("check_quality", "quality_checker", message, net,
                   check_quality(prompts, api_key, message, QualityContext, net))
    /\ UNCHANGED AgentFrame

(* the call has returned to its caller *)
Returned ==
    /\ a.op # "none"
    /\ a' = NoCall
    /\ UNCHANGED AgentFrame

NextAgent ==
    \/ \E name \in PromptNames : CallGetPromptTemplate(name)
    \/ \E p \in Profiles, e \in AgentEvents, net \in ExchangesFor(api_key) :
          CallMakeDecision(p, e, net)
    \/ \E p \in Profiles, net \in ExchangesFor(api_key) : CallGenerateText(p, "email", net)
    \/ \E m \in QualityMessages, net \in ExchangesFor(api_key) : CallCheckQuality(m, net)
    \/ Returned
    \/ Admin

SpecAgent == Init /\ [][NextAgent]_vars

Next ==
    \/ \E w \in Workers, u \in UserIds, e \in EventTypes : ReceiveEvent(w, EventModel(u, e))
    \/ \E w \in Workers : GetUser(w)
    \/ \E w \in Workers : CreateUser(w)
    \/ \E w \in Workers, net \in ExchangesFor(api_key) : Decide(w, net)
    \/ \E w \in Workers : Respond(w)
    \/ Admin

Spec == Init /\ [][Next]_vars

(* Several server processes: the requests in service interleave.  The
   prompts table stays as init_db seeded it. *)
InitConc == InitCommon /\ multiprocess = TRUE

NextConc ==
    \/ \E w \in Workers, u \in UserIds, e \in EventTypes : ReceiveEvent(w, EventModel(u, e))
    \/ \E w \in Workers : GetUser(w)
    \/ \E w \in Workers : CreateUser(w)
    \/ \E w \in Workers, net \in ExchangesFor(api_key) : Decide(w, net)
    \/ \E w \in Workers : Respond(w)

SpecConc == InitConc /\ [][NextConc]_vars

(***************************************************************************)
(* Properties of the agent's operations, checked under SpecAgent.         *)
(***************************************************************************)

(* C4: _call_llm always returns a result and never raises.  Without an API
   key it returns the mock response for the prompt and sends no HTTP
   request; with a key, a transport failure, a status other than 200 and a
   body that is no completion all end in the mock response for the same
   prompt, after the one request.  make_decision and check_quality return
   the result of _call_llm as it is, so the call is observed through them. *)
C4_LlmClientNeverRaises ==
    (a.op \in {"make_decision", "check_quality"} /\ a.out.llm_calls = 1) =>
        LET failed == \/ a.net.kind = "transport_error"
                      \/ a.net.status # 200
                      \/ a.net.body.shape # "completion" IN
        /\ a.out.raised = "none"
        /\ a.out.value # None
        /\ api_key = "" => a.out.http = 0 /\ a.out.value = _mock_response(a.out.prompt)
        /\ (api_key # "" /\ failed) =>
               a.out.http = 1 /\ a.out.value = _mock_response(a.out.prompt)

(* C4 happens: a call with a key whose request met a transport failure has
   returned the mock response. *)
C4_Witness ==
    /\ a.op = "make_decision"
    /\ api_key # ""
    /\ a.net.kind = "transport_error"
    /\ a.out.llm_calls = 1
    /\ a.out.raised = "none"
    /\ a.out.mock

(* C5: get_prompt_template returns the template of an active stored row of
   that name whenever there is one; with no such row it returns the
   non-empty built-in default for decision_agent and text_generator and the
   empty string for any other name; it does not raise. *)
C5_TemplateLookup ==
    a.op = "get_prompt_template" =>
        LET stored == {i \in 1..Len(prompts) : prompts[i].name = a.name /\ prompts[i].is_active}
        IN
        /\ a.out.raised = "none"
        /\ stored # {} => \E i \in stored : a.out.template = prompts[i].template
        /\ (stored = {} /\ a.name = "decision_agent") =>
               a.out.template = DefaultDecisionAgent /\ a.out.template # ""
        /\ (stored = {} /\ a.name = "text_generator") =>
               a.out.template = DefaultTextGenerator /\ a.out.template # ""
        /\ (stored = {} /\ a.name \notin {"decision_agent", "text_generator"}) =>
               a.out.template = ""

(* C5 happens: a known name without a stored row has been looked up and the
   built-in default came back, while other rows are stored. *)
C5_Witness ==
    /\ a.op = "get_prompt_template"
    /\ a.name = "decision_agent"
    /\ \A i \in 1..Len(prompts) : prompts[i].name # "decision_agent"
    /\ Len(prompts) > 0
    /\ a.out.template = DefaultDecisionAgent

(* C6, as the specification states it: when decision_agent has no active
   stored row, make_decision uses the built-in default template, fills its
   placeholders and returns a decision result instead of raising, for every
   profile, event and recent activity (here: every input that json.dumps
   accepts, the timestamp of the event being text). *)
C6_DefaultTemplateDecides ==
    (/\ a.op = "make_decision"
     /\ a.input = "str"
     /\ ActivePrompts(prompts, "decision_agent") = <<>>) =>
        /\ a.out.template = DefaultDecisionAgent
        /\ a.out.raised = "none"
        /\ a.out.value # None

(* C8, as the specification states it: with no quality_checker template
   (the lookup yields the empty string) check_quality returns the fixed
   result with overall_score 0.9 and approved true without calling the LLM
   client, and while the row that init_db seeds is stored this is the path
   check_quality takes. *)
C8_ShortCircuitAfterSeeding ==
    a.op = "check_quality" =>
        LET fixed == /\ a.out.raised = "none"
                     /\ IsDict(a.out.value)
                     /\ Get(a.out.value, "overall_score", None) = Num("0.9")
                     /\ Get(a.out.value, "approved", None) = Bool(TRUE)
                     /\ a.out.llm_calls = 0
            seeded == \E i \in 1..Len(prompts) :
                         /\ prompts[i].name = "quality_checker"
                         /\ prompts[i].template = SeedQualityChecker
        IN
        /\ a.out.template = "" => fixed
        /\ seeded => fixed

(* C8, amended: with no quality_checker template (the lookup yields the
   empty string) check_quality returns the fixed result with overall_score
   0.9 and approved true, for every message and user context, without
   calling the LLM client; while the quality_checker row that init_db seeds
   is stored, the lookup yields that template and check_quality builds its
   prompt from it and calls the LLM client once. *)
C8_ShortCircuitOnlyWithoutTemplate ==
    a.op = "check_quality" =>
        LET seeded == \E i \in 1..Len(prompts) :
                         /\ prompts[i].name = "quality_checker"
                         /\ prompts[i].template = SeedQualityChecker
        IN
        /\ a.out.template = "" =>
               /\ a.out.raised = "none"
               /\ IsDict(a.out.value)
               /\ Get(a.out.value, "overall_score", None) = Num("0.9")
               /\ Get(a.out.value, "approved", None) = Bool(TRUE)
               /\ a.out.llm_calls = 0
               /\ a.out.http = 0
        /\ seeded =>
               /\ a.out.template = SeedQualityChecker
               /\ a.out.prompt # ""
               /\ a.out.llm_calls = 1

(* C8 happens: check_quality has returned the fixed result while no
   quality_checker row is stored. *)
C8_Witness ==
    /\ a.op = "check_quality"
    /\ \A i \in 1..Len(prompts) : prompts[i].name # "quality_checker"
    /\ a.out.template = ""
    /\ a.out.value = QualityDefault

(* C9, as the specification states it: when the mock is used for the prompt
   that check_quality builds from the seeded quality_checker template, it
   returns the approval with overall_score 0.85 and approved true, not the
   canned text or decision; and the mock tries its branches in the order
   decision, text, quality, generic. *)
C9_QualityPromptMock ==
    (a.op \in {"make_decision", "check_quality"} /\ a.out.mock) =>
        LET decision == \/ ContainsLower(a.out.prompt, "reshenie")
                        \/ Contains(a.out.prompt, "should_engage")
            text == ContainsLower(a.out.prompt, "tekst") \/ ContainsLower(a.out.prompt, "napishi")
            quality == \/ ContainsLower(a.out.prompt, "prover'")
                       \/ ContainsLower(a.out.prompt, "quality")
        IN
        /\ (a.op = "check_quality" /\ a.out.template = SeedQualityChecker) =>
               /\ IsDict(a.out.value)
               /\ Get(a.out.value, "overall_score", None) = Num("0.85")
               /\ Get(a.out.value, "approved", None) = Bool(TRUE)
               /\ a.out.value \notin {MockText, MockDecision}
        /\ decision => a.out.value = MockDecision
        /\ (~decision /\ text) => a.out.value = MockText
        /\ (~decision /\ ~text /\ quality) => a.out.value = MockQuality
        /\ (~decision /\ ~text /\ ~quality) => a.out.value = MockGeneric(a.out.prompt)

(* C11, as the specification states it: on a response with status 200 that
   carries a message content, _call_llm returns the content parsed as JSON
   when it parses and the wrapper {"text": content, "raw": content} when it
   does not; it does not raise and does not fall through to the mock
   response. *)
C11_ParseOrWrap ==
    (/\ a.op \in {"make_decision", "check_quality"}
     /\ a.out.llm_calls = 1
     /\ api_key # ""
     /\ a.net.kind = "response"
     /\ a.net.status = 200
     /\ a.net.body.shape = "completion") =>
        LET content == a.net.body.content
            parses == content.py = "str" /\ \E e \in JsonTable : e.text = content.s
        IN
        /\ a.out.raised = "none"
        /\ ~a.out.mock
        /\ parses => \E e \in JsonTable : e.text = content.s /\ a.out.value = e.value
        /\ ~parses => a.out.value = Dict(<<"text", "raw">>, [text |-> content, raw |-> content])

(***************************************************************************)
(* Properties of POST /api/event, checked under Spec.                     *)
(***************************************************************************)

(* C3: a request for a user id without a row in users creates exactly one
   user row, with segment "new" and total_spent 0, and exactly one event
   row; a request for a known user id adds exactly one event row and leaves
   users as it was.  users0 and events0 are the tables as the request found
   them; the requests are served one after another. *)
C3_EventAndUserRows ==
    \A w \in Workers :
        LET r == h[w]
            uid == r.event.user_id
            known == \E i \in 1..Len(r.users0) : r.users0[i].user_id = uid
        IN
        /\ r.pc # "idle" =>
               /\ Len(events) = Len(r.events0) + 1
               /\ SubSeq(events, 1, Len(r.events0)) = r.events0
               /\ events[Len(events)].user_id = uid
               /\ events[Len(events)].event_type = r.event.event
        /\ r.pc \in {"decide", "done"} =>
               IF known THEN users = r.users0
               ELSE /\ Len(users) = Len(r.users0) + 1
                    /\ SubSeq(users, 1, Len(r.users0)) = r.users0
                    /\ users[Len(users)].user_id = uid
                    /\ users[Len(users)].segment = "new"
                    /\ users[Len(users)].total_spent \in {"0", "0.0"}
                    /\ Cardinality({i \in 1..Len(users) : users[i].user_id = uid}) = 1

(* C3 happens: a request for a second user id has created that user's row
   beside the first user's, and the request is answered. *)
C3_Witness ==
    \E w \in Workers :
        /\ h[w].pc = "done"
        /\ Len(h[w].users0) = 1
        /\ h[w].users0[1].user_id # h[w].event.user_id
        /\ Len(users) = 2
        /\ Len(events) = Len(h[w].events0) + 1

(* The decision the agent gives for the request of worker w when it is
   handed the fields of the event as JSON values, the timestamp as ISO
   text: the template the request looked up, filled with the profile, the
   event and the recent activity, and sent through _call_llm. *)
C2_Decision(w) ==
    LET ev == h[w].event
        event == Dict(<<"user_id", "event", "product_id", "timestamp", "properties">>,
                      [event |-> Str(ev.event), user_id |-> Str(ev.user_id),
                       product_id |-> ev.product_id, timestamp |-> Str(ev.timestamp.iso),
                       properties |-> ev.properties])
        f == format(h[w].decision.template,
                    [user_profile |-> json_dumps(h[w].user_profile).value,
                     event |-> json_dumps(event).value,
                     recent_activity |-> json_dumps(RecentActivity(events, ev.user_id)).value])
    IN IF f.raised # "none" THEN Raise(f.raised)
       ELSE _call_llm(api_key, f.value, h[w].net)

(* C2, as the specification states it: a request whose agent decision has
   should_engage = true and an action with a non-null type (whatever the
   type, the subject and body present, absent or null) adds exactly one
   message row for the user of the event, with status "pending" and the
   action's type as message_type. *)
C2_EngagedDecisionAddsOneRow ==
    \A w \in Workers :
        h[w].pc = "done" =>
            LET d == C2_Decision(w)
                engaged == /\ d.raised = "none"
                           /\ IsDict(d.value)
                           /\ Truthy(Get(d.value, "should_engage", None))
                           /\ IsDict(Get(d.value, "action", None))
                           /\ Get(Get(d.value, "action", None), "type", None) # None
            IN
            engaged =>
                /\ Len(messages) = Len(h[w].messages0) + 1
                /\ SubSeq(messages, 1, Len(h[w].messages0)) = h[w].messages0
                /\ messages[Len(messages)].user_id = h[w].event.user_id
                /\ messages[Len(messages)].status = "pending"
                /\ messages[Len(messages)].message_type
                       = Get(Get(d.value, "action", None), "type", None)

(* C7, as the specification states it: with no API key and the seeded
   decision_agent template, a cart_abandon request is answered with the
   decision should_engage = true, action type "email" and the subject of
   the canned decision, and leaves exactly one new pending email row for
   the user. *)
C7_NoKeyExample ==
    \A w \in Workers :
        (/\ h[w].pc = "done"
         /\ api_key = ""
         /\ h[w].event.event = "cart_abandon"
         /\ h[w].decision.template = SeedDecisionAgent) =>
            LET result == h[w].response.agent_decision
                action == Get(result, "action", None)
            IN
            /\ h[w].response.status = "processed"
            /\ IsDict(result)
            /\ Get(result, "should_engage", None) = Bool(TRUE)
            /\ IsDict(action)
            /\ Get(action, "type", None) = Str("email")
            /\ Get(action, "subject", None) = Str("Zabyli chto-to v korzine?")
            /\ Len(messages) = Len(h[w].messages0) + 1
            /\ messages[Len(messages)].user_id = h[w].event.user_id
            /\ messages[Len(messages)].message_type = Str("email")
            /\ messages[Len(messages)].status = "pending"

(* C10, as the specification states it: a record-event request makes
   exactly one call to the LLM client, the call sends at most one HTTP
   request, and after a failed request none follows (the mock response is
   the only sequel). *)
C10_OneLlmCallPerRequest ==
    \A w \in Workers :
        h[w].pc = "done" =>
            /\ h[w].decision.llm_calls = 1
            /\ h[w].decision.http <= 1
            /\ (api_key # "" /\ h[w].net.kind = "transport_error") =>
                   h[w].decision.http = 1 /\ h[w].decision.mock

(* C12, as the specification states it: the handler enforces no limit of
   messages per user and hour, so k requests for one user whose decisions
   all engage with a non-null action type leave k message rows for that
   user.  Without an API key and with the seeded decision_agent template
   the decision of every request is the canned decision (should_engage =
   true, type "email"), so once the requests received are answered each
   user has as many message rows as event rows. *)
C12_EveryEngagedRequestLeavesARow ==
    (/\ api_key = ""
     /\ \E i \in 1..Len(prompts) : /\ prompts[i].name = "decision_agent"
                                   /\ prompts[i].template = SeedDecisionAgent
     /\ admin_ops = 0
     /\ \A w \in Workers : h[w].pc \in {"idle", "done"}) =>
        \A u \in UserIds :
            Cardinality({i \in 1..Len(messages) : messages[i].user_id = u})
                = Cardinality({i \in 1..Len(events) : events[i].user_id = u})

(* C13, as the specification states it: whatever result the agent gives,
   also one with should_engage = true whose action is null or missing and
   one that is valid JSON but no object, the request writes no message row
   for it and is answered with status "processed". *)
C13_MalformedDecisionIsProcessed ==
    \A w \in Workers :
        h[w].pc = "done" =>
            LET d == C2_Decision(w)
                malformed ==
                    /\ d.raised = "none"
                    /\ \/ ~IsDict(d.value)
                       \/ /\ Truthy(Get(d.value, "should_engage", None))
                          /\ Get(d.value, "action", None) = None
            IN
            malformed =>
                /\ messages = h[w].messages0
                /\ h[w].response.status = "processed"

(* The results the agent may hand to the handler: what json.loads gives for
   the contents of the endpoint, and the canned decision. *)
C15_Results == {e.value : e \in JsonTable} \cup {MockDecision}

(* C15: the handler commits the event row, then the user row if the user is
   new, then the message row.  In every state a message row has a users row
   and an event row of its user.  A request that has come to its decision
   step has its event row and its user's row in the tables; when the
   decision step raises, these rows remain and no message row is written;
   and whatever result the agent would return at that point, the rest of
   the handler either fails and leaves the messages table as it is (so for
   an INSERT INTO messages that is rejected), or adds at most one row, a row
   for the user of the request.  (No request of the program comes further
   than a decision step that raises, so the first part holds of an empty
   messages table.) *)
C15_CommitOrder ==
    /\ \A i \in 1..Len(messages) :
          /\ UserRows(users, messages[i].user_id) # <<>>
          /\ \E j \in 1..Len(events) : events[j].user_id = messages[i].user_id
    /\ \A w \in Workers :
          h[w].pc \in {"decide", "done"} =>
              /\ Len(events) > Len(h[w].events0)
              /\ events[Len(h[w].events0) + 1].user_id = h[w].event.user_id
              /\ UserRows(users, h[w].event.user_id) # <<>>
    /\ \A w \in Workers :
          (h[w].pc = "done" /\ h[w].response.status = "error") =>
              messages = h[w].messages0
    /\ \A w \in Workers :
          h[w].pc = "decide" =>
              \A v \in C15_Results :
                  LET t == HandleDecision(messages, h[w].event.user_id, v) IN
                  /\ t.response.status = "error" => t.messages = messages
                  /\ t.messages # messages =>
                        /\ Len(t.messages) = Len(messages) + 1
                        /\ SubSeq(t.messages, 1, Len(messages)) = messages
                        /\ t.messages[Len(t.messages)].user_id = h[w].event.user_id

(* C15 happens: the first request has failed at its decision step and has
   left its event row and its user's row and no message row; the event row
   of the second request, for another user id, is committed while the users
   table has no row for that user id yet. *)
C15_Witness ==
    \E w \in Workers :
        /\ h[w].pc = "create_user"
        /\ Len(h[w].events0) = 1
        /\ Len(events) = 2
        /\ UserRows(users, events[1].user_id) # <<>>
        /\ events[2].user_id = h[w].event.user_id
        /\ UserRows(users, events[2].user_id) = <<>>
        /\ messages = <<>>

(***************************************************************************)
(* Properties of concurrent record-event requests, checked under SpecConc. *)
(***************************************************************************)

(* C14, as the specification states it: however concurrent requests for one
   unseen user id interleave, the users table never holds two rows for a
   user id, the event row of every request is recorded, and every request
   completes successfully with a decision.  A request that completes with a
   decision has passed its user step, so in particular no request is ended
   by the users table rejecting its INSERT. *)
C14_ConcurrentRequestsAllSucceed ==
    /\ \A u \in UserIds : Len(UserRows(users, u)) <= 1
    /\ \A w \in Workers :
          h[w].pc # "idle" =>
              /\ Len(events) > Len(h[w].events0)
              /\ events[Len(h[w].events0) + 1].user_id = h[w].event.user_id
    /\ \A w \in Workers :
          h[w].pc = "done" => h[w].response.error # "IntegrityError"

====
